---- MODULE Spec2Model ----
(***************************************************************************)
(* A model of av-filter.py: the filter reads a YAML document, walks it,    *)
(* decrypts every !vault scalar and encrypts every plain string through    *)
(* the external ansible-vault command, and prints the re-serialized        *)
(* document behind the indentation of the input's first line.              *)
(*                                                                         *)
(* Text is a sequence of characters; a character is a one-element string   *)
(* (or a token such as "$AV" standing for a run of non-blank characters).  *)
(***************************************************************************)
EXTENDS Integers, Sequences, FiniteSets, TLC

NL == "\n"
SP == " "

\* ------------------------------------------------------------------ bounds
\* longest plaintext drawn for the gateway specifications
MaxLen == 3
\* most entries of one container of a drawn document
MaxWidth == 2
\* most leading characters of raw input drawn for the indentation capture
MaxHead == 3
\* most external commands that fail in one run
MaxFailures == 1

\* ------------------------------------------------------- python str helpers
RECURSIVE SplitAcc(_, _, _, _)
SplitAcc(text, i, cur, keepends) ==
    IF i > Len(text)
    THEN (IF cur = <<>> THEN <<>> ELSE <<cur>>)
    ELSE IF text[i] = NL
         THEN <<(IF keepends THEN Append(cur, NL) ELSE cur)>>
              \o SplitAcc(text, i + 1, <<>>, keepends)
         ELSE SplitAcc(text, i + 1, Append(cur, text[i]), keepends)

\* str.splitlines(keepends), for text whose only line boundary is "\n"
splitlines(text, keepends) == SplitAcc(text, 1, <<>>, keepends)

\* str.endswith(suffix)
endswith(text, suffix) ==
    /\ Len(text) >= Len(suffix)
    /\ SubSeq(text, Len(text) - Len(suffix) + 1, Len(text)) = suffix

RECURSIVE lstrip(_)
\* str.lstrip(): leading whitespace removed
lstrip(s) ==
    IF s # <<>> /\ Head(s) \in {SP, NL} THEN lstrip(Tail(s)) ELSE s

RECURSIVE join(_, _)
\* sep.join(parts)
join(sep, parts) ==
    IF parts = <<>> THEN <<>>
    ELSE IF Len(parts) = 1 THEN parts[1]
    ELSE parts[1] \o sep \o join(sep, Tail(parts))

RECURSIVE Concat(_)
\* "".join(parts)
Concat(parts) == IF parts = <<>> THEN <<>> ELSE Head(parts) \o Concat(Tail(parts))

RECURSIVE Spaces(_)
\* " " * n
Spaces(n) == IF n <= 0 THEN <<>> ELSE <<SP>> \o Spaces(n - 1)

RECURSIVE LeadingSpaces(_)
LeadingSpaces(s) ==
    IF s # <<>> /\ Head(s) = SP THEN 1 + LeadingSpaces(Tail(s)) ELSE 0

Max(a, b) == IF a >= b THEN a ELSE b

\* ------------------------------------------------------------ node values
\* A scalar, or a reference to a container of the heap (id > 0).
Scalar(kind, tag, style, v) ==
    [kind |-> kind, tag |-> tag, style |-> style, v |-> v, id |-> 0]
\* a plain Python str as the loader gives it
PlainStr(v) == Scalar("str", "", "", v)
\* ruamel.yaml.comments.TaggedScalar(value, tag=tag, style="|")
TaggedScalar(v, tag) == Scalar("tagged", tag, "|", v)
Ref(n) == [kind |-> "ref", tag |-> "", style |-> "", v |-> <<>>, id |-> n]
NoValue == Scalar("none", "", "", <<>>)

\* =================================================== the external commands
\* `ansible-vault encrypt_string` and `ansible-vault decrypt` are modelled as
\* mutually inverse under one identity: the ciphertext of p is the header
\* "$AV", then one line of hex digits (a salt byte, then p's characters).
HexOf(c) == IF c = "a" THEN "61" ELSE IF c = SP THEN "20" ELSE "0a"
CharOf(h) == IF h = "61" THEN "a" ELSE IF h = "20" THEN SP ELSE NL
HexDigits == {"61", "20", "0a"}

Cipher(p) == <<"$AV", NL, "00">> \o [i \in 1..Len(p) |-> HexOf(p[i])] \o <<NL>>

\* stdout of `ansible-vault encrypt_string --stdin-name ""` on success: the
\* `!vault |` header line, then the ciphertext lines indented
ExtEncryptStdout(p) ==
    <<"!vault |", NL>>
    \o Concat([i \in 1..Len(splitlines(Cipher(p), TRUE)) |->
                 <<SP, SP>> \o splitlines(Cipher(p), TRUE)[i]])

IsCipher(c) ==
    LET ls == splitlines(c, FALSE) IN
    /\ Len(ls) = 2
    /\ ls[1] = <<"$AV">>
    /\ ls[2] # <<>>
    /\ ls[2][1] = "00"
    /\ \A i \in 2..Len(ls[2]) : ls[2][i] \in HexDigits

\* the plaintext `ansible-vault decrypt` writes for a well-formed ciphertext
ExtDecryptStdout(c) ==
    LET body == splitlines(c, FALSE)[2] IN
    [i \in 1..(Len(body) - 1) |-> CharOf(body[i + 1])]

\* ============================================ yaml.load of a block scalar
\* The fragment ansible_vault_decrypt_string builds is "- |x\n" followed by
\* the plaintext's lines, each behind two spaces.  The loader's scan of the
\* literal block scalar (header without indentation indicator), line by line.
HasBreak(l) == endswith(l, <<NL>>)
Content(l) == IF HasBreak(l) THEN SubSeq(l, 1, Len(l) - 1) ELSE l
IsBlank(l) == LeadingSpaces(Content(l)) = Len(Content(l))
Breaks(n) == [i \in 1..n |-> NL]

RECURSIVE ScanIndentation(_, _, _, _)
\* the leading empty lines: the breaks passed, the widest run of spaces seen,
\* and where the scan stops (a content line, or the end of the input)
ScanIndentation(L, i, breaks, mx) ==
    IF i > Len(L)
    THEN [i |-> i, breaks |-> breaks, mx |-> mx, col |-> 0, eof |-> TRUE]
    ELSE LET sp == LeadingSpaces(Content(L[i]))
             m  == Max(mx, sp)
         IN  IF IsBlank(L[i])
             THEN IF HasBreak(L[i])
                  THEN ScanIndentation(L, i + 1, breaks + 1, m)
                  ELSE [i |-> i + 1, breaks |-> breaks, mx |-> m, col |-> sp,
                        eof |-> TRUE]
             ELSE [i |-> i, breaks |-> breaks, mx |-> m, col |-> sp, eof |-> FALSE]

RECURSIVE ScanBreaks(_, _, _, _)
\* the empty lines between two content lines: skip up to `indent` spaces and
\* every break; stop at a line of content, at a less indented line, or at the end
ScanBreaks(L, j, n, indent) ==
    IF j > Len(L)
    THEN [j |-> j, breaks |-> n, at |-> "eof"]
    ELSE LET sp == LeadingSpaces(Content(L[j])) IN
         IF IsBlank(L[j]) /\ sp <= indent
         THEN IF HasBreak(L[j])
              THEN ScanBreaks(L, j + 1, n + 1, indent)
              ELSE [j |-> j + 1, breaks |-> n, at |-> "eof"]
         ELSE IF sp >= indent
              THEN [j |-> j, breaks |-> n, at |-> "content"]
              ELSE [j |-> j, breaks |-> n, at |-> "dedent"]

RECURSIVE ScanBlockLines(_, _, _, _, _, _)
\* the inner part of the block scalar and the chomping of its tail
ScanBlockLines(L, i, chunks, breaks, indent, chomp) ==
    LET line       == Content(L[i])
        body       == SubSeq(line, indent + 1, Len(line))
        line_break == IF HasBreak(L[i]) THEN <<NL>> ELSE <<>>
        got        == chunks \o Breaks(breaks) \o body
        nxt        == ScanBreaks(L, i + 1, 0, indent)
    IN  IF nxt.at = "content"
        THEN ScanBlockLines(L, nxt.j, got \o line_break, nxt.breaks, indent, chomp)
        ELSE IF nxt.at = "dedent"
        THEN [ok |-> FALSE, v |-> <<>>]
        ELSE [ok |-> TRUE,
              v  |-> got \o (IF chomp # "|-" THEN line_break ELSE <<>>)
                         \o (IF chomp = "|+" THEN Breaks(nxt.breaks) ELSE <<>>)]

\* the block scalar's content indentation, detected from the first non-empty
\* line (never less than one more than the enclosing sequence's)
BlockIndent(first) == Max(1, first.mx)

\* yaml.load(newyml)[0]: ok and the value, or a scanner/parser error
LoadBlockScalar(newyml) ==
    LET all   == splitlines(newyml, TRUE)
        chomp == all[1][3]
        L     == Tail(all)
        first == ScanIndentation(L, 1, 0, 0)
        indent == BlockIndent(first)
    IN  IF first.eof
        THEN [ok |-> TRUE, v |-> IF chomp = "|+" THEN Breaks(first.breaks) ELSE <<>>]
        ELSE IF first.col # indent
        THEN [ok |-> FALSE, v |-> <<>>]
        ELSE ScanBlockLines(L, first.i, <<>>, first.breaks, indent, chomp)

\* ========================================================= Crypto gateway
\* DecryptHeader with the one-newline test ahead of the two-newline test
DecryptHeaderClipFirst(text) ==
    IF Len(splitlines(text, TRUE)) = 1 /\ ~endswith(text, <<NL>>)
    THEN "bare"
    ELSE IF endswith(text, <<NL>>) THEN "|"
    ELSE IF endswith(text, <<NL, NL>>) THEN "|+"
    ELSE "|-"

\* ansible_vault_decrypt_string, lines 127-135: "bare" for the early return
\* of the text itself, else the block header chosen for the fragment
DecryptHeader(text) ==
    IF Len(splitlines(text, TRUE)) = 1 /\ ~endswith(text, <<NL>>)
    THEN "bare"
    ELSE IF endswith(text, <<NL, NL>>) THEN "|+"
    ELSE IF endswith(text, <<NL>>) THEN "|"
    ELSE "|-"

\* line 137: the fragment, "" when the text is returned bare
DecryptFragment(text) ==
    IF DecryptHeader(text) = "bare" THEN <<>>
    ELSE <<"-", SP, DecryptHeader(text), NL>>
         \o Concat([i \in 1..Len(splitlines(text, TRUE)) |->
                      <<SP, SP>> \o splitlines(text, TRUE)[i]])

\* what ansible_vault_decrypt_string returns for the command's stdout `text`
\* (ok = FALSE: yaml.load raised)
DecryptReturn(text) ==
    IF DecryptHeader(text) = "bare"
    THEN [ok |-> TRUE, node |-> PlainStr(text)]
    ELSE LET r == LoadBlockScalar(DecryptFragment(text)) IN
         [ok |-> r.ok, node |-> Scalar("str", "", "|", r.v)]

\* line 179: the header line dropped, every other line left-trimmed
EncryptText2(text) ==
    LET ls == splitlines(text, FALSE)
        rest == IF ls = <<>> THEN <<>> ELSE Tail(ls)
    IN  join(<<NL>>, [i \in 1..Len(rest) |-> lstrip(rest[i])]) \o <<NL>>

\* what ansible_vault_encrypt_string returns for the command's stdout `text`
EncryptReturn(text) == TaggedScalar(EncryptText2(text), "!vault")

\* ================================================================= inputs
\* A container of the loaded document: kind "map" (keys and values in stored
\* order) or "seq" (values only).  The document is a heap of containers, so
\* that two entries can hold the same container object (a YAML alias).
MkMap(keys, vals) == [kind |-> "map", keys |-> keys, vals |-> vals]
MkSeq(vals) == [kind |-> "seq", keys |-> <<>>, vals |-> vals]
MkDoc(root, heap) == [root |-> root, heap |-> heap]

RootKeys == <<"a", "b", "c", "d">>
ChildKeys == <<"x", "y">>

Int42 == Scalar("int", "", "", <<"4", "2">>)
NoneValue == Scalar("null", "", "", <<"None">>)
OtherTagged == TaggedScalar(<<"a">>, "!other")
Vaulted(p) == TaggedScalar(Cipher(p), "!vault")

\* every text of at most n characters over {a, space, newline}
Texts(n) == UNION {[1..k -> {"a", SP, NL}] : k \in 0..n}

RootLeaves == {PlainStr(<<"a">>), Vaulted(<<"a">>), Int42, OtherTagged}
ChildLeaves == {PlainStr(<<"a">>), Vaulted(<<"a">>)}

Containers(keys, slots, width) ==
    UNION {UNION {{MkMap(SubSeq(keys, 1, w), vs), MkSeq(vs)} :
                    vs \in [1..w -> slots]} : w \in 1..width}

HasRef(c) == \E i \in 1..Len(c.vals) : c.vals[i].kind = "ref"

\* a vaulted scalar whose plaintext the loader rejects when decrypt reparses it
VaultedUnloadable == Vaulted(<<SP, "a", NL, "a">>)

\* documents for the walk: a root container of up to MaxWidth entries, each a
\* leaf or the one child container (of one or two leaves), which two root
\* entries may share; and a few documents with other leaves
WalkDocs ==
    LET roots == Containers(RootKeys, RootLeaves \cup {Ref(2)}, MaxWidth) IN
    {MkDoc(Ref(1), <<r>>) : r \in {x \in roots : ~HasRef(x)}}
    \cup {MkDoc(Ref(1), <<r, c>>) :
            r \in {x \in roots : HasRef(x)},
            c \in Containers(ChildKeys, ChildLeaves, Len(ChildKeys))}
    \cup {MkDoc(PlainStr(<<"a">>), <<>>), MkDoc(Int42, <<>>),
          MkDoc(Ref(1), <<MkMap(<<"a", "b">>, <<VaultedUnloadable, PlainStr(<<"a">>)>>)>>),
          MkDoc(Ref(1), <<MkSeq(<<VaultedUnloadable, Int42>>)>>),
          MkDoc(Ref(1), <<MkMap(<<"a", "b">>, <<Ref(2), PlainStr(<<"a">>)>>),
                          MkSeq(<<Vaulted(<<"a">>), Int42>>)>>),
          MkDoc(Ref(1), <<MkSeq(<<Ref(2), Int42>>),
                          MkMap(<<"x", "y">>, <<NoneValue, PlainStr(<<"a">>)>>)>>)}

\* one-leaf documents over every text, for the gateway
TextDocs ==
    {MkDoc(Ref(1), <<MkSeq(<<PlainStr(p)>>)>>) : p \in Texts(MaxLen)}
    \cup {MkDoc(Ref(1), <<MkSeq(<<Vaulted(p)>>)>>) : p \in Texts(MaxLen)}

IsOneLeaf(d) ==
    /\ Len(d.heap) = 1
    /\ d.heap[1].kind = "seq"
    /\ Len(d.heap[1].vals) = 1
    /\ d.heap[1].vals[1].kind \in {"str", "tagged"}

EmptyDoc == MkDoc(NoneValue, <<>>)
InvalidDoc == MkDoc(Scalar("invalid", "", "", <<>>), <<>>)
HeadDocs ==
    {MkDoc(Ref(1), <<MkMap(<<"a">>, <<Vaulted(<<"a", NL, NL>>)>>)>>),
     MkDoc(Ref(1), <<MkSeq(<<PlainStr(<<"a">>), Vaulted(<<"a", NL, "a">>)>>)>>),
     InvalidDoc}

\* Raw standard input: spaces, newlines and "D", the text of the document.
\* Input without any document text loads as None.
Heads == UNION {[1..k -> {SP, NL, "D"}] : k \in 0..MaxHead}
HasDocText(raw) == \E i \in 1..Len(raw) : raw[i] = "D"

Inputs ==
    {[raw |-> <<SP, "D", NL>>, doc |-> d] : d \in WalkDocs \cup TextDocs}
    \cup {[raw |-> raw, doc |-> d] : raw \in {h \in Heads : HasDocText(h)},
                                      d \in HeadDocs}
    \cup {[raw |-> raw, doc |-> EmptyDoc] : raw \in {h \in Heads : ~HasDocText(h)}}

NONE == "<None>"
UNSET == "<unset>"

\* ================================================================== state
VARIABLES
    argv_vaultid,       \* args.vaultid: NONE, "" or an identity
    environ,            \* os.environ["ANSIBLE_VAULT_IDENTITY"], or UNSET
    py37,               \* whether subprocess.run accepts capture_output/text
    stdin,              \* the input: its raw text and the document it loads as
    lines,              \* sys.stdin.read()
    first_line_indent,
    data,               \* the loaded root
    heap,               \* the containers of the loaded document, by id
    stack,              \* the active walk_dict/walk_list calls: container, position
    pc,
    proc,               \* the external command of the leaf in hand
    text,               \* the command's captured stdout
    newyml,             \* the fragment decrypt reparses
    string_stream,
    stdout,             \* the lines printed
    exit_msg,           \* the argument of sys.exit
    launched,           \* every external process started, in order
    stored,             \* every result stored back into the tree, in order
    passes              \* walks over the tree so far

vars == <<argv_vaultid, environ, py37, stdin, lines, first_line_indent, data,
          heap, stack, pc, proc, text, newyml, string_stream, stdout, exit_msg,
          launched, stored, passes>>

NoProc == [cmd |-> "", input |-> <<>>, rc |-> 0, stdout |-> <<>>]
NoExit == [msg |-> "", fmt |-> <<>>]

Init ==
    /\ argv_vaultid \in {NONE, "", "id"}
    /\ environ \in {UNSET, "envid"}
    /\ py37 \in BOOLEAN
    /\ stdin \in Inputs
    /\ lines = <<>>
    /\ first_line_indent = 0
    /\ data = NoValue
    /\ heap = <<>>
    /\ stack = <<>>
    /\ pc = "args"
    /\ proc = NoProc
    /\ text = <<>>
    /\ newyml = <<>>
    /\ string_stream = <<>>
    /\ stdout = <<>>
    /\ exit_msg = NoExit
    /\ launched = <<>>
    /\ stored = <<>>
    /\ passes = 0

\* ============================================================= serializer
\* yaml.dump with explicit_start off, block style, mapping=2, sequence=4,
\* offset=2.  The layout is the emitter's; what the filter relies on is that
\* the document becomes text, one or more lines per entry.
IndentLines(s, n) ==
    Concat([i \in 1..Len(splitlines(s, TRUE)) |->
              IF splitlines(s, TRUE)[i] = <<NL>>
              THEN <<NL>>
              ELSE Spaces(n) \o splitlines(s, TRUE)[i]])

EndLine(s) == IF s = <<>> \/ endswith(s, <<NL>>) THEN s ELSE s \o <<NL>>

ChompOf(v) ==
    IF endswith(v, <<NL, NL>>) \/ v = <<NL>> THEN "|+"
    ELSE IF endswith(v, <<NL>>) THEN "|"
    ELSE "|-"

IsPlainable(v) ==
    /\ v # <<>>
    /\ \A i \in 1..Len(v) : v[i] # NL
    /\ v[1] # SP
    /\ v[Len(v)] # SP

\* the text of a scalar entry after its "key:" or "-"
DumpScalar(node, n) ==
    IF node.kind = "tagged"
    THEN <<SP, node.tag, SP, "|", NL>> \o EndLine(IndentLines(node.v, n + 2))
    ELSE IF node.kind = "str" /\ node.style = "|"
    THEN <<SP, ChompOf(node.v), NL>> \o EndLine(IndentLines(node.v, n + 2))
    ELSE IF IsPlainable(node.v)
    THEN <<SP>> \o node.v \o <<NL>>
    ELSE <<SP, "\"">>
         \o [i \in 1..Len(node.v) |-> IF node.v[i] = NL THEN "\\n" ELSE node.v[i]]
         \o <<"\"", NL>>

\* an entry holding a container another entry of the same parent holds too
IsAlias(c, i) == \E j \in 1..(i - 1) : c.vals[j] = c.vals[i]
IsAnchor(c, i) ==
    /\ ~IsAlias(c, i)
    /\ \E j \in (i + 1)..Len(c.vals) : c.vals[j] = c.vals[i]

RECURSIVE DumpContainer(_, _, _)
DumpContainer(h, id, n) ==
    LET c == h[id]
        lead(i) == IF c.kind = "map"
                   THEN Spaces(n) \o <<c.keys[i], ":">>
                   ELSE Spaces(n + 2) \o <<"-">>
        entry(i) ==
            IF c.vals[i].kind # "ref" THEN lead(i) \o DumpScalar(c.vals[i], n + 2)
            ELSE IF IsAlias(c, i) THEN lead(i) \o <<SP, "*id001", NL>>
            ELSE lead(i) \o (IF IsAnchor(c, i) THEN <<SP, "&id001">> ELSE <<>>)
                 \o <<NL>> \o DumpContainer(h, c.vals[i].id, n + 2)
    IN  Concat([i \in 1..Len(c.vals) |-> entry(i)])

\* yaml.dump(data, string_stream)
Dump(h, root) == DumpContainer(h, root.id, 0)

\* ================================================================ actions
Top == stack[Len(stack)]
Current == heap[Top.c].vals[Top.i]
\* the position in hand, as the entry numbers from the root down
Path == [k \in 1..Len(stack) |-> stack[k].i]
Advance == [stack EXCEPT ![Len(stack)].i = @ + 1]

IsVaulted(value) == value.kind = "tagged" /\ value.tag = "!vault"
IsStr(value) == value.kind = "str"
IsContainer(value) == value.kind = "ref"

\* lines 54-57
ParseArgs ==
    /\ pc = "args"
    /\ environ' = IF argv_vaultid \notin {NONE, ""} THEN argv_vaultid ELSE environ
    /\ pc' = "read"
    /\ UNCHANGED <<argv_vaultid, py37, stdin, lines, first_line_indent, data,
                   heap, stack, proc, text, newyml, string_stream, stdout,
                   exit_msg, launched, stored, passes>>

\* lines 282-284
ReadStdin ==
    /\ pc = "read"
    /\ lines' = stdin.raw
    /\ first_line_indent' = 0
    /\ pc' = "indent"
    /\ UNCHANGED <<argv_vaultid, environ, py37, stdin, data, heap, stack, proc,
                   text, newyml, string_stream, stdout, exit_msg, launched,
                   stored, passes>>

\* IndentMore counting on through line ends
IndentMoreAcrossLines ==
    /\ first_line_indent < Len(lines)
    /\ lines[first_line_indent + 1] \in {SP, NL}

\* line 285, with Python's 0-based lines[first_line_indent]
IndentMore ==
    /\ first_line_indent < Len(lines)
    /\ lines[first_line_indent + 1] = SP

\* lines 285-286: one turn of the loop, or its end
CaptureIndent ==
    /\ pc = "indent"
    /\ IF IndentMore
       THEN first_line_indent' = first_line_indent + 1 /\ pc' = pc
       ELSE first_line_indent' = first_line_indent /\ pc' = "load"
    /\ UNCHANGED <<argv_vaultid, environ, py37, stdin, lines, data, heap, stack,
                   proc, text, newyml, string_stream, stdout, exit_msg,
                   launched, stored, passes>>

\* line 288: the loader raises on invalid YAML
Load ==
    /\ pc = "load"
    /\ IF stdin.doc.root.kind = "invalid"
       THEN pc' = "traceback" /\ UNCHANGED <<data, heap>>
       ELSE pc' = "root" /\ data' = stdin.doc.root /\ heap' = stdin.doc.heap
    /\ UNCHANGED <<argv_vaultid, environ, py37, stdin, lines, first_line_indent,
                   stack, proc, text, newyml, string_stream, stdout, exit_msg,
                   launched, stored, passes>>

\* what_is with a fixed message that formats nothing in
what_is_silent(value) ==
    [msg |-> "Error: expected 'key: value' pair; found {}", fmt |-> <<>>]

\* what_is(data), lines 189-191: sys.exit with the value formatted in
what_is(value) ==
    [msg |-> "Error: expected 'key: value' pair; found {}", fmt |-> <<value.v>>]

MissingIdentity ==
    [msg |-> "ANSIBLE_VAULT_IDENTITY not set and no vaultid given.", fmt |-> <<>>]

\* lines 290-295
Dispatch ==
    /\ pc = "root"
    /\ IF IsContainer(data)
       THEN /\ stack' = <<[c |-> data.id, i |-> 1]>>
            /\ pc' = "walk"
            /\ passes' = 1
            /\ UNCHANGED exit_msg
       ELSE /\ exit_msg' = what_is(data)
            /\ pc' = "exit"
            /\ UNCHANGED <<stack, passes>>
    /\ UNCHANGED <<argv_vaultid, environ, py37, stdin, lines, first_line_indent,
                   data, heap, proc, text, newyml, string_stream, stdout,
                   launched, stored>>

Visiting == pc = "walk" /\ Top.i <= Len(heap[Top.c].vals)

\* DecryptLaunches with the TypeError raised only after the first process ran
DecryptLaunchesTwice(value) == <<"try", "except">>

\* lines 111-125: the processes one call of ansible_vault_decrypt_string
\* starts.  The try block raises TypeError while it evaluates
\* str(data, encoding="utf-8"), before any process starts, unless data is
\* bytes; were it bytes, line 118 would raise after the first process ran.
DecryptLaunches(value) ==
    IF value.kind = "bytes" THEN <<"try", "except">> ELSE <<"except">>

\* lines 149-177: subprocess.run raises TypeError on capture_output before
\* it starts anything where the keyword is unknown
EncryptLaunches(has_capture_output) ==
    IF has_capture_output THEN <<"try">> ELSE <<"except">>

Launches(cmd, calls) ==
    [k \in 1..Len(calls) |-> [cmd |-> cmd, call |-> calls[k], path |-> Path]]

\* walk_dict lines 211-216, walk_list lines 235-240
VisitVaulted ==
    /\ Visiting
    /\ IsVaulted(Current)
    /\ launched' = launched \o Launches("decrypt", DecryptLaunches(Current))
    /\ proc' = [NoProc EXCEPT !.cmd = "decrypt", !.input = Current.v]
    /\ pc' = "proc"
    /\ UNCHANGED <<argv_vaultid, environ, py37, stdin, lines, first_line_indent,
                   data, heap, stack, text, newyml, string_stream, stdout,
                   exit_msg, stored, passes>>

\* NoIdentity that never finds the variable missing
NoIdentityNever(env) == FALSE

\* line 146: "ANSIBLE_VAULT_IDENTITY" not in os.environ
NoIdentity(env) == env = UNSET

\* walk_dict lines 218-220, walk_list lines 246-248, and lines 144-177
VisitStr ==
    /\ Visiting
    /\ ~IsVaulted(Current)
    /\ IsStr(Current)
    /\ IF NoIdentity(environ)
       THEN /\ exit_msg' = MissingIdentity
            /\ pc' = "exit"
            /\ UNCHANGED <<launched, proc>>
       ELSE /\ launched' = launched \o Launches("encrypt", EncryptLaunches(py37))
            /\ proc' = [NoProc EXCEPT !.cmd = "encrypt", !.input = Current.v]
            /\ pc' = "proc"
            /\ UNCHANGED exit_msg
    /\ UNCHANGED <<argv_vaultid, environ, py37, stdin, lines, first_line_indent,
                   data, heap, stack, text, newyml, string_stream, stdout,
                   stored, passes>>

\* walk_dict lines 222-225, walk_list lines 242-245
VisitContainer ==
    /\ Visiting
    /\ IsContainer(Current)
    /\ stack' = Append(stack, [c |-> Current.id, i |-> 1])
    /\ UNCHANGED <<argv_vaultid, environ, py37, stdin, lines, first_line_indent,
                   data, heap, pc, proc, text, newyml, string_stream, stdout,
                   exit_msg, launched, stored, passes>>

\* VisitUnsupported that skips the entry and walks on
VisitUnsupportedSkip ==
    /\ Visiting
    /\ ~IsVaulted(Current) /\ ~IsStr(Current) /\ ~IsContainer(Current)
    /\ stack' = Advance
    /\ UNCHANGED <<argv_vaultid, environ, py37, stdin, lines, first_line_indent,
                   data, heap, pc, proc, text, newyml, string_stream, stdout,
                   exit_msg, launched, stored, passes>>

\* walk_dict lines 226-227, walk_list lines 250-251
VisitUnsupported ==
    /\ Visiting
    /\ ~IsVaulted(Current) /\ ~IsStr(Current) /\ ~IsContainer(Current)
    /\ exit_msg' = what_is(Current)
    /\ pc' = "exit"
    /\ UNCHANGED <<argv_vaultid, environ, py37, stdin, lines, first_line_indent,
                   data, heap, stack, proc, text, newyml, string_stream, stdout,
                   launched, stored, passes>>

\* the end of a walk_dict/walk_list loop: back in the caller's loop, or at
\* line 297
WalkReturn ==
    /\ pc = "walk"
    /\ Top.i > Len(heap[Top.c].vals)
    /\ IF Len(stack) = 1
       THEN stack' = <<>> /\ pc' = "dump"
       ELSE /\ stack' = [k \in 1..(Len(stack) - 1) |->
                           IF k = Len(stack) - 1
                           THEN [stack[k] EXCEPT !.i = @ + 1]
                           ELSE stack[k]]
            /\ pc' = pc
    /\ UNCHANGED <<argv_vaultid, environ, py37, stdin, lines, first_line_indent,
                   data, heap, proc, text, newyml, string_stream, stdout,
                   exit_msg, launched, stored, passes>>

\* what the external commands can do: succeed, or exit nonzero with nothing
\* on stdout (wrong key, unknown identity, damaged ciphertext)
Failure == [rc |-> 1, stdout |-> <<>>]
Failures == Cardinality({k \in 1..Len(stored) : stored[k].rc # 0})
MayFail == IF Failures < MaxFailures THEN {Failure} ELSE {}
DecryptOutcomes(input) ==
    IF IsCipher(input)
    THEN MayFail \cup {[rc |-> 0, stdout |-> ExtDecryptStdout(input)]}
    ELSE {Failure}
EncryptOutcomes(input) ==
    MayFail \cup {[rc |-> 0, stdout |-> ExtEncryptStdout(input)]}

\* SetItem that deletes a mapping's key and inserts it again, at the end
SetItemAtEnd(c, i, node) ==
    IF c.kind = "map"
    THEN [c EXCEPT !.keys = SubSeq(c.keys, 1, i - 1)
                            \o SubSeq(c.keys, i + 1, Len(c.keys)) \o <<c.keys[i]>>,
                   !.vals = SubSeq(c.vals, 1, i - 1)
                            \o SubSeq(c.vals, i + 1, Len(c.vals)) \o <<node>>]
    ELSE [c EXCEPT !.vals[i] = node]

\* data[key] = node (walk_dict) and data[idx] = node (walk_list)
SetItem(c, i, node) ==
    IF c.kind = "map"
    THEN LET j == CHOOSE j \in 1..Len(c.keys) : c.keys[j] = c.keys[i]
         IN  [c EXCEPT !.vals[j] = node]
    ELSE [c EXCEPT !.vals[i] = node]

Store(node, cmd, rc) ==
    /\ heap' = [heap EXCEPT ![Top.c] = SetItem(heap[Top.c], Top.i, node)]
    /\ stored' = Append(stored, [cmd |-> cmd, rc |-> rc, path |-> Path, c |-> Top.c,
                                 i |-> Top.i])
    /\ stack' = Advance
    /\ pc' = "walk"

\* lines 118/125-141, then the assignment of line 216 or 240
DecryptExit ==
    /\ pc = "proc"
    /\ proc.cmd = "decrypt"
    /\ \E out \in DecryptOutcomes(proc.input) :
        /\ proc' = [proc EXCEPT !.rc = out.rc, !.stdout = out.stdout]
        /\ text' = out.stdout
        /\ newyml' = DecryptFragment(out.stdout)
        /\ IF DecryptReturn(out.stdout).ok
           THEN Store(DecryptReturn(out.stdout).node, "decrypt", out.rc)
           ELSE pc' = "traceback" /\ UNCHANGED <<heap, stored, stack>>
    /\ UNCHANGED <<argv_vaultid, environ, py37, stdin, lines, first_line_indent,
                   data, string_stream, stdout, exit_msg, launched, passes>>

\* lines 163/177-186, then the assignment of line 220 or 248
EncryptExit ==
    /\ pc = "proc"
    /\ proc.cmd = "encrypt"
    /\ \E out \in EncryptOutcomes(proc.input) :
        /\ proc' = [proc EXCEPT !.rc = out.rc, !.stdout = out.stdout]
        /\ text' = out.stdout
        /\ Store(EncryptReturn(out.stdout), "encrypt", out.rc)
    /\ UNCHANGED <<argv_vaultid, environ, py37, stdin, lines, first_line_indent,
                   data, newyml, string_stream, stdout, exit_msg, launched,
                   passes>>

\* lines 297-298
Serialize ==
    /\ pc = "dump"
    /\ string_stream' = Dump(heap, data)
    /\ pc' = "print"
    /\ UNCHANGED <<argv_vaultid, environ, py37, stdin, lines, first_line_indent,
                   data, heap, stack, proc, text, newyml, stdout, exit_msg,
                   launched, stored, passes>>

\* line 301, for every line of the stream
Indented(ls, n) == [k \in 1..Len(ls) |-> Spaces(n) \o ls[k]]

\* lines 300-301
PrintLines ==
    /\ pc = "print"
    /\ stdout' = Indented(splitlines(string_stream, FALSE), first_line_indent)
    /\ pc' = "done"
    /\ UNCHANGED <<argv_vaultid, environ, py37, stdin, lines, first_line_indent,
                   data, heap, stack, proc, text, newyml, string_stream,
                   exit_msg, launched, stored, passes>>

Next ==
    \/ ParseArgs
    \/ ReadStdin
    \/ CaptureIndent
    \/ Load
    \/ Dispatch
    \/ VisitVaulted
    \/ VisitStr
    \/ VisitContainer
    \/ VisitUnsupported
    \/ WalkReturn
    \/ DecryptExit
    \/ EncryptExit
    \/ Serialize
    \/ PrintLines

Spec == Init /\ [][Next]_vars

\* The gateway applied twice to one leaf: after the walk of a one-leaf
\* document the same tree is walked again, so that what encrypt returned is
\* decrypted (and the reverse).
Rewalk ==
    /\ pc = "dump"
    /\ passes = 1
    /\ IsOneLeaf(stdin.doc)
    /\ stack' = <<[c |-> data.id, i |-> 1]>>
    /\ pc' = "walk"
    /\ passes' = 2
    /\ UNCHANGED <<argv_vaultid, environ, py37, stdin, lines, first_line_indent,
                   data, heap, proc, text, newyml, string_stream, stdout,
                   exit_msg, launched, stored>>

NextTwice == Next \/ Rewalk

SpecTwice == Init /\ [][NextTwice]_vars

\* ============================================================= properties
RECURSIVE LeafList(_, _, _)
\* the leaf positions under container id, in document order: the path from
\* the root, the leaf, and the container and entry that hold it
LeafList(h, id, prefix) ==
    Concat([i \in 1..Len(h[id].vals) |->
              IF h[id].vals[i].kind = "ref"
              THEN LeafList(h, h[id].vals[i].id, Append(prefix, i))
              ELSE <<[path |-> Append(prefix, i), node |-> h[id].vals[i],
                      c |-> id, i |-> i]>>])

InputLeaves ==
    IF stdin.doc.root.kind = "ref" THEN LeafList(stdin.doc.heap, 1, <<>>) ELSE <<>>

RECURSIVE LexLess(_, _)
\* p before q in document order
LexLess(p, q) ==
    IF p = <<>> THEN q # <<>>
    ELSE IF q = <<>> THEN FALSE
    ELSE IF Head(p) # Head(q) THEN Head(p) < Head(q)
    ELSE LexLess(Tail(p), Tail(q))

Terminal == pc \in {"done", "exit", "traceback"}
Loaded == pc \notin {"args", "read", "indent", "load"}
WhatIsMsg == "Error: expected 'key: value' pair; found {}"
IsUnsupported(v) == ~IsVaulted(v) /\ ~IsStr(v) /\ ~IsContainer(v)
OpsOn(c, i) == SelectSeq(stored, LAMBDA e : e.c = c /\ e.i = i)

\* the first position of InputLeaves holding a leaf that satisfies P
FirstPath(P(_)) ==
    InputLeaves[CHOOSE k \in 1..Len(InputLeaves) :
                  /\ P(InputLeaves[k].node)
                  /\ \A j \in 1..(k - 1) : ~P(InputLeaves[j].node)].path

\* no container is held by two entries
Unshared ==
    \A k, j \in 1..Len(InputLeaves) :
        (InputLeaves[k].c = InputLeaves[j].c /\ InputLeaves[k].i = InputLeaves[j].i)
            => k = j

ToggledOnce(leaf) ==
    LET out == heap[leaf.c].vals[leaf.i]
        ops == OpsOn(leaf.c, leaf.i)
    IN  /\ Len(ops) = 1
        /\ IsVaulted(leaf.node) => (IsStr(out) /\ ops[1].cmd = "decrypt")
        /\ IsStr(leaf.node) => (IsVaulted(out) /\ ops[1].cmd = "encrypt")

AllLeavesStrOrVaulted ==
    /\ InputLeaves # <<>>
    /\ \A k \in 1..Len(InputLeaves) :
         IsVaulted(InputLeaves[k].node) \/ IsStr(InputLeaves[k].node)

\* C1: on a completed run over a document whose leaves are all plain strings
\* or !vault scalars, every leaf has been toggled exactly once: a vaulted leaf
\* is a plain string and was only decrypted, a plain leaf is vaulted and was
\* only encrypted.
C1_ToggledOnce ==
    (pc = "done" /\ AllLeavesStrOrVaulted) =>
        \A k \in 1..Len(InputLeaves) : ToggledOnce(InputLeaves[k])

\* The same for documents in which no container is held by two entries.
ToggledOnceUnshared ==
    (pc = "done" /\ AllLeavesStrOrVaulted /\ Unshared) =>
        \A k \in 1..Len(InputLeaves) : ToggledOnce(InputLeaves[k])

HasPlainLeaf == \E k \in 1..Len(InputLeaves) : IsStr(InputLeaves[k].node)
NoIdentityGiven == argv_vaultid = NONE /\ environ = UNSET

\* C2 as stated: with a plain string leaf anywhere and no identity given, the
\* run ends in the MissingIdentity exit with nothing on standard output.
C2_Original ==
    (Terminal /\ NoIdentityGiven /\ HasPlainLeaf) =>
        (pc = "exit" /\ exit_msg = MissingIdentity /\ stdout = <<>>)

\* C2: with a plain string leaf and no identity given, the run aborts with
\* nothing on standard output; the abort is MissingIdentity unless a value
\* before the first plain string leaf in document order aborted the run first
\* (an unsupported leaf, or a decrypted plaintext the reparse raises on).
C2_MissingIdentity ==
    (Terminal /\ NoIdentityGiven /\ HasPlainLeaf) =>
        /\ stdout = <<>>
        /\ \/ pc = "exit" /\ exit_msg = MissingIdentity
           \/ /\ pc = "exit" /\ exit_msg.msg = WhatIsMsg
              /\ IsUnsupported(Current)
              /\ LexLess(Path, FirstPath(IsStr))
           \/ /\ pc = "traceback"
              /\ LexLess(Path, FirstPath(IsStr))

C2_Witness ==
    /\ HasPlainLeaf /\ NoIdentityGiven
    /\ pc = "exit" /\ exit_msg = MissingIdentity
    /\ Len(stored) > 0
    /\ Len(stack) = 2

HasUnsupportedLeaf ==
    \E k \in 1..Len(InputLeaves) : IsUnsupported(InputLeaves[k].node)

\* C3 as stated: with an unsupported leaf anywhere, the run ends in the
\* unsupported-leaf exit with nothing on standard output.
C3_Original ==
    (Terminal /\ HasUnsupportedLeaf) =>
        (pc = "exit" /\ exit_msg.msg = WhatIsMsg /\ stdout = <<>>)

\* C3: with an unsupported leaf, the run aborts with nothing on standard
\* output; the abort is the unsupported-leaf error unless a leaf before the
\* first unsupported one aborted the run first (a plain string without an
\* identity, or a decrypted plaintext the reparse raises on).
C3_Unsupported ==
    (Terminal /\ HasUnsupportedLeaf) =>
        /\ stdout = <<>>
        /\ \/ /\ pc = "exit" /\ exit_msg.msg = WhatIsMsg
              /\ Path = FirstPath(IsUnsupported)
           \/ /\ pc = "exit" /\ exit_msg = MissingIdentity
              /\ LexLess(Path, FirstPath(IsUnsupported))
           \/ /\ pc = "traceback"
              /\ LexLess(Path, FirstPath(IsUnsupported))

C3_Witness ==
    /\ HasUnsupportedLeaf
    /\ pc = "exit" /\ exit_msg.msg = WhatIsMsg
    /\ Len(stored) > 0
    /\ stdout = <<>>

\* C4: once an external command has exited nonzero, the run is aborted: its
\* leaf is not replaced, the walk does not go on, nothing is printed.
C4_AbortOnFailure ==
    (proc.rc # 0) =>
        /\ pc \in {"exit", "traceback"}
        /\ Failures = 0
        /\ stdout = <<>>

\* --------------------------------------------------------------- decrypt
\* decrypt has returned (or raised in the reparse): text and newyml are its
DecryptDone == proc.cmd = "decrypt" /\ pc # "proc"
\* the form decrypt chose: the text itself, or the fragment's block header
FormTaken == IF newyml = <<>> THEN "bare" ELSE newyml[3]

NewlinesIn(t) == Cardinality({i \in 1..Len(t) : t[i] = NL})
TrailingNewlines(t) ==
    Cardinality({i \in 1..Len(t) : \A j \in i..Len(t) : t[j] = NL})
\* the physical lines of t: one per newline, and one for an unterminated rest
PhysicalLines(t) ==
    NewlinesIn(t) + (IF t # <<>> /\ t[Len(t)] # NL THEN 1 ELSE 0)

IsBareCase(t) == PhysicalLines(t) = 1 /\ TrailingNewlines(t) = 0
IsKeepCase(t) == ~IsBareCase(t) /\ TrailingNewlines(t) >= 2
IsClipCase(t) == ~IsBareCase(t) /\ TrailingNewlines(t) = 1
IsStripCase(t) == PhysicalLines(t) >= 2 /\ TrailingNewlines(t) = 0
IsStripOrEmptyCase(t) == PhysicalLines(t) # 1 /\ TrailingNewlines(t) = 0

CasesOf(t, strip(_)) ==
    (IF IsBareCase(t) THEN {"bare"} ELSE {})
    \cup (IF IsKeepCase(t) THEN {"|+"} ELSE {})
    \cup (IF IsClipCase(t) THEN {"|"} ELSE {})
    \cup (IF strip(t) THEN {"|-"} ELSE {})

\* C5 as stated: exactly one of the four cases (single line without newline,
\* two or more trailing newlines, one trailing newline, several lines without
\* trailing newline) applies to the plaintext, and it is the form decrypt takes.
C5_Original ==
    (DecryptDone /\ proc.rc = 0) => CasesOf(text, IsStripCase) = {FormTaken}

\* C5: the form is determined by the text alone: one physical line without
\* trailing newline is returned bare; otherwise two or more trailing newlines
\* give |+, exactly one gives |, and text without trailing newline that is not
\* one line (several lines, or the empty text) gives |-.
C5_FormByText == DecryptDone => CasesOf(text, IsStripOrEmptyCase) = {FormTaken}

C5_Witness ==
    /\ DecryptDone
    /\ proc.rc = 0
    /\ text = <<>>
    /\ FormTaken = "|-"

\* ------------------------------------------------------------ indentation
\* the number of spaces the raw input begins with
LeadingSpacesOfInput ==
    CHOOSE n \in 0..Len(stdin.raw) :
        /\ \A i \in 1..n : stdin.raw[i] = SP
        /\ n = Len(stdin.raw) \/ stdin.raw[n + 1] # SP

\* C6: the captured indentation is the number of spaces the first line begins
\* with, whatever follows it, and every printed line, blank ones included, is
\* the serialized document's line behind exactly that many spaces.
C6_Indentation ==
    /\ pc \notin {"args", "read", "indent"} => first_line_indent = LeadingSpacesOfInput
    /\ pc = "done" =>
          LET n  == LeadingSpacesOfInput
              ls == splitlines(string_stream, FALSE)
          IN  /\ Len(stdout) = Len(ls)
              /\ \A k \in 1..Len(stdout) :
                   /\ Len(stdout[k]) = n + Len(ls[k])
                   /\ \A i \in 1..n : stdout[k][i] = SP
                   /\ SubSeq(stdout[k], n + 1, Len(stdout[k])) = ls[k]

C6_Witness ==
    /\ pc = "done"
    /\ stdin.raw = <<SP, SP, "D">>
    /\ first_line_indent = 2
    /\ \E k \in 1..Len(stdout) : stdout[k] = <<SP, SP>>

\* -------------------------------------------------------------- round trip
\* C7: with the commands inverse to each other and not failing, encrypting a
\* plain string and decrypting what encrypt returned gives the string back.
C7_RoundTrip ==
    (/\ IsOneLeaf(stdin.doc)
     /\ IsStr(stdin.doc.heap[1].vals[1])
     /\ Failures = 0) =>
        /\ pc # "traceback"
        /\ (passes = 2 /\ pc = "dump") =>
              /\ IsStr(heap[1].vals[1])
              /\ heap[1].vals[1].v = stdin.doc.heap[1].vals[1].v

\* --------------------------------------------------------------- structure
SameShape(h, g) ==
    /\ Len(h) = Len(g)
    /\ \A id \in 1..Len(g) :
         /\ h[id].kind = g[id].kind
         /\ h[id].keys = g[id].keys
         /\ Len(h[id].vals) = Len(g[id].vals)
         /\ \A i \in 1..Len(g[id].vals) :
              IF g[id].vals[i].kind = "ref"
              THEN h[id].vals[i] = g[id].vals[i]
              ELSE h[id].vals[i].kind # "ref"

\* C8: the walk changes only leaf values: every mapping keeps its keys in
\* their order, every sequence its length, every container its place.
C8_SameStructure == Loaded => SameShape(heap, stdin.doc.heap)

C8_Witness ==
    /\ pc = "done"
    /\ Len(heap) = 2
    /\ heap[1].kind = "map" /\ Len(heap[1].keys) = 2
    /\ Len(stored) >= 2
    /\ heap # stdin.doc.heap

\* ------------------------------------------------------------- error text
InWalkError == pc = "exit" /\ exit_msg.msg = WhatIsMsg /\ stack # <<>>
\* str() of a sequence position, Python counting from 0
IndexText == <<"0", "1", "2", "3">>
OffendingKey ==
    IF heap[Top.c].kind = "map" THEN <<heap[Top.c].keys[Top.i]>>
    ELSE <<IndexText[Top.i]>>
Names(msg, what) == \E k \in 1..Len(msg.fmt) : msg.fmt[k] = what

\* C9 as stated: the error for an unsupported value names the offending key
\* (or index) and the offending value.
C9_Original ==
    InWalkError => (Names(exit_msg, Current.v) /\ Names(exit_msg, OffendingKey))

\* C9: the error for an unsupported value names the offending value, and
\* nothing else: neither the key nor the index.
C9_NamesValueOnly == InWalkError => exit_msg.fmt = <<Current.v>>

C9_Witness ==
    /\ InWalkError
    /\ heap[Top.c].kind = "map"
    /\ Top.i = 2
    /\ Current = Int42

====
